---- MODULE Spec2Model ----
(***************************************************************************)
(* The install command of the kn operator plugin.                          *)
(*                                                                         *)
(* Two revisions of the command are in the sources and both are modelled:  *)
(*   impl = "current"  pkg/command/install/install.go                      *)
(*   impl = "legacy"   unnamed/part_000 (temporary directory, ApplyFile)   *)
(*                                                                         *)
(* Text is modelled at two levels.  A flag value is a sequence of          *)
(* one-character strings, so that strings.ToLower, strings.HasPrefix,      *)
(* strings.EqualFold and the semver parser work on characters.  A          *)
(* URL is a sequence of characters too.  A message (an error, a line of    *)
(* the values document, the confirmation) is a TLA+ string built by        *)
(* concatenation, and the values document is the sequence of its lines     *)
(* (the text split at "\n").                                               *)
(***************************************************************************)
EXTENDS Integers, Sequences, FiniteSets, TLC

\* ------------------------------------------------------------------ bounds

\* Version numbers MAJOR range over 0..MaxMajor, MINOR and PATCH over 0..MaxMinor.
MaxMajor == 10
MaxMinor == 1
\* Invocations of the namespace provisioner in SpecProvision.
MaxInvocations == 2

\* --------------------------------------------------------- character text

RECURSIVE Str(_)
\* The Go string of a character sequence.
Str(s) == IF s = <<>> THEN "" ELSE Head(s) \o Str(Tail(s))

UpperLetters ==
  <<"A","B","C","D","E","F","G","H","I","J","K","L","M",
    "N","O","P","Q","R","S","T","U","V","W","X","Y","Z">>
LowerLetters ==
  <<"a","b","c","d","e","f","g","h","i","j","k","l","m",
    "n","o","p","q","r","s","t","u","v","w","x","y","z">>
Digits == <<"0","1","2","3","4","5","6","7","8","9">>

IsDigit(c) == \E i \in 1..10 : Digits[i] = c
IsLetter(c) == \E i \in 1..26 : UpperLetters[i] = c \/ LowerLetters[i] = c

ToLowerChar(c) ==
  IF \E i \in 1..26 : UpperLetters[i] = c
  THEN LowerLetters[CHOOSE i \in 1..26 : UpperLetters[i] = c]
  ELSE c

\* strings.ToLower
ToLower(s) == [i \in 1..Len(s) |-> ToLowerChar(s[i])]

\* strings.HasPrefix
HasPrefix(s, p) == Len(s) >= Len(p) /\ SubSeq(s, 1, Len(p)) = p

\* strings.EqualFold, on the ASCII text the flags hold
EqualFold(a, b) == ToLower(a) = ToLower(b)

\* s[from..] (Go's v[i:], 1-based)
Rest(s, from) == SubSeq(s, from, Len(s))

\* b occurs in a as a contiguous run of characters
Contains(a, b) ==
  \E i \in 0..(Len(a) - Len(b)) : SubSeq(a, i + 1, i + Len(b)) = b

\* ------------------------------------------------------ program constants

ServingComponent == <<"s","e","r","v","i","n","g">>
EventingComponent == <<"e","v","e","n","t","i","n","g">>
DefaultIstioNamespace == <<"i","s","t","i","o","-","s","y","s","t","e","m">>
DefaultKnativeServingNamespace ==
  <<"k","n","a","t","i","v","e","-","s","e","r","v","i","n","g">>
DefaultKnativeEventingNamespace ==
  <<"k","n","a","t","i","v","e","-","e","v","e","n","t","i","n","g">>
DefaultNamespace == <<"d","e","f","a","u","l","t">>
Latest == <<"l","a","t","e","s","t">>
Empty == <<>>

\* "https://github.com/knative/operator/releases/latest/download/operator.yaml"
LatestURL ==
  <<"h","t","t","p","s",":","/","/","g","i","t","h","u","b",".","c","o","m",
    "/","k","n","a","t","i","v","e","/","o","p","e","r","a","t","o","r","/",
    "r","e","l","e","a","s","e","s","/","l","a","t","e","s","t","/","d","o",
    "w","n","l","o","a","d","/","o","p","e","r","a","t","o","r",".","y","a",
    "m","l">>
\* "https://github.com/knative/operator/releases/download/"
DownloadBase ==
  <<"h","t","t","p","s",":","/","/","g","i","t","h","u","b",".","c","o","m",
    "/","k","n","a","t","i","v","e","/","o","p","e","r","a","t","o","r","/",
    "r","e","l","e","a","s","e","s","/","d","o","w","n","l","o","a","d",
    "/">>
\* "/operator.yaml"
OperatorYaml ==
  <<"/","o","p","e","r","a","t","o","r",".","y","a","m","l">>
\* "knative-"
KnativePrefix ==
  <<"k","n","a","t","i","v","e","-">>

\* ------------------------------------------- golang.org/x/mod/semver (used)

\* parseInt: the length of the leading decimal number of v, 0 when v does not
\* start with a digit or the number has a leading zero.
IntLen(v) ==
  IF v = <<>> \/ ~IsDigit(v[1]) THEN 0
  ELSE LET i == CHOOSE k \in 1..Len(v) :
                  /\ \A j \in 1..k : IsDigit(v[j])
                  /\ (k = Len(v) \/ ~IsDigit(v[k + 1]))
       IN IF v[1] = "0" /\ i # 1 THEN 0 ELSE i

IsIdentChar(c) == IsLetter(c) \/ IsDigit(c) \/ c = "-"

\* isBadNum: a numeric identifier with a leading zero
IsBadNum(v) ==
  /\ Len(v) > 1
  /\ \A j \in 1..Len(v) : IsDigit(v[j])
  /\ v[1] = "0"

\* The dot-separated identifiers of v are all non-empty and of identifier
\* characters; numeric identifiers carry no leading zero when `numeric`.
ValidIdents(v, numeric) ==
  /\ v # <<>>
  /\ \A j \in 1..Len(v) : IsIdentChar(v[j]) \/ v[j] = "."
  /\ v[1] # "." /\ v[Len(v)] # "."
  /\ \A j \in 1..(Len(v) - 1) : ~(v[j] = "." /\ v[j + 1] = ".")
  /\ numeric =>
       \A a \in 1..Len(v) : \A b \in a..Len(v) :
          ( /\ (a = 1 \/ v[a - 1] = ".")
            /\ (b = Len(v) \/ v[b + 1] = ".")
            /\ \A j \in a..b : v[j] # "." )
          => ~IsBadNum(SubSeq(v, a, b))

\* parsePrerelease and parseBuild on what follows the patch number: "" or
\* -PRERELEASE, then "" or +BUILD.
ValidTail(v) ==
  \/ v = <<>>
  \/ /\ v[1] = "-"
     /\ LET plus == {j \in 1..Len(v) : v[j] = "+"}
        IN IF plus = {}
           THEN ValidIdents(Rest(v, 2), TRUE)
           ELSE LET p == CHOOSE j \in plus : \A k \in plus : j <= k
                IN /\ ValidIdents(SubSeq(v, 2, p - 1), TRUE)
                   /\ ValidIdents(Rest(v, p + 1), FALSE)
  \/ /\ v[1] = "+"
     /\ ValidIdents(Rest(v, 2), FALSE)

\* semver.parse: [ok, major]; vMAJOR[.MINOR[.PATCH[-PRERELEASE][+BUILD]]]
SemverParse(v) ==
  LET bad == [ok |-> FALSE, major |-> <<>>] IN
  IF v = <<>> \/ v[1] # "v" THEN bad
  ELSE
    LET a  == Rest(v, 2)
        n1 == IntLen(a)
        b  == Rest(a, n1 + 1)
        good == [ok |-> TRUE, major |-> SubSeq(a, 1, n1)]
    IN IF n1 = 0 THEN bad
       ELSE IF b = <<>> THEN good
       ELSE IF b[1] # "." THEN bad
       ELSE
         LET c  == Rest(b, 2)
             n2 == IntLen(c)
             d  == Rest(c, n2 + 1)
         IN IF n2 = 0 THEN bad
            ELSE IF d = <<>> THEN good
            ELSE IF d[1] # "." THEN bad
            ELSE
              LET e  == Rest(d, 2)
                  n3 == IntLen(e)
              IN IF n3 = 0 THEN bad
                 ELSE IF ValidTail(Rest(e, n3 + 1)) THEN good ELSE bad

\* semver.IsValid
SemverIsValid(v) == SemverParse(v).ok

\* semver.Major: "v" and the major number, "" for an invalid version
SemverMajor(v) ==
  IF SemverParse(v).ok THEN <<"v">> \o SemverParse(v).major ELSE <<>>

\* compareInt: decimal strings without leading zeros
CompareInt(x, y) ==
  IF x = y THEN 0
  ELSE IF Len(x) < Len(y) THEN -1
  ELSE IF Len(x) > Len(y) THEN 1
  ELSE LET k == CHOOSE i \in 1..Len(x) :
                   x[i] # y[i] /\ \A j \in 1..(i - 1) : x[j] = y[j]
           dx == CHOOSE i \in 1..10 : Digits[i] = x[k]
           dy == CHOOSE i \in 1..10 : Digits[i] = y[k]
       IN IF dx < dy THEN -1 ELSE 1

\* semver.Compare(major, "v0") for a major version string: an invalid version
\* sorts before every valid one, and "v0" stands for v0.0.0.
CompareMajorToV0(major) ==
  IF ~SemverParse(major).ok THEN -1
  ELSE CompareInt(SemverParse(major).major, <<"0">>)

\* -------------------------------------------------------- Release Locator

\* common.GetMajor(version): (validity, major).  Its source is not among the
\* files; it validates the semantic version and yields its major version in
\* the form semver.Compare takes at the call sites.
GetMajor(version) ==
  [validity |-> SemverIsValid(version), major |-> SemverMajor(version)]

NotSemverError(version) == Str(version) \o " is not a semantic version"

\* getOperatorURL with the "knative-" prefix chosen for every major version
\* (the comparison with v0 lost).
getOperatorURL_AlwaysPrefixed(version) ==
  LET lowered == ToLower(version)
      versionSanitized ==
        IF ~HasPrefix(version, <<"v">>) THEN <<"v">> \o lowered ELSE lowered
      gm == GetMajor(versionSanitized)
  IN IF version # Latest
     THEN IF ~gm.validity
          THEN [URL |-> Empty, err |-> NotSemverError(version)]
          ELSE [URL |-> DownloadBase \o KnativePrefix \o versionSanitized \o OperatorYaml,
                err |-> ""]
     ELSE [URL |-> LatestURL, err |-> ""]

\* install.getOperatorURL(version): [URL, err], err = "" for nil
getOperatorURL(version) ==
  LET lowered == ToLower(version)
      versionSanitized ==
        IF ~HasPrefix(version, <<"v">>) THEN <<"v">> \o lowered ELSE lowered
      gm == GetMajor(versionSanitized)
      prefix == IF CompareMajorToV0(gm.major) = 1 THEN KnativePrefix ELSE Empty
  IN IF version # Latest
     THEN IF ~gm.validity
          THEN [URL |-> Empty, err |-> NotSemverError(version)]
          ELSE [URL |-> DownloadBase \o prefix \o versionSanitized \o OperatorYaml,
                err |-> ""]
     ELSE [URL |-> LatestURL, err |-> ""]

\* GetOperatorURL with "latest" recognised in any case.
GetOperatorURL_LatestAnyCase(version) ==
  LET versionSanitized ==
        IF ~HasPrefix(version, <<"v">>) THEN <<"v">> \o version ELSE version
      gm == GetMajor(versionSanitized)
      prefix == IF CompareMajorToV0(gm.major) = 1 THEN KnativePrefix ELSE Empty
  IN IF ~EqualFold(version, Latest)
     THEN IF ~gm.validity
          THEN [URL |-> Empty, err |-> NotSemverError(version)]
          ELSE [URL |-> DownloadBase \o prefix \o version \o OperatorYaml,
                err |-> ""]
     ELSE [URL |-> LatestURL, err |-> ""]

\* common.GetOperatorURL(version): [URL, err], err = "" for nil
GetOperatorURL(version) ==
  LET versionSanitized ==
        IF ~HasPrefix(version, <<"v">>) THEN <<"v">> \o version ELSE version
      gm == GetMajor(versionSanitized)
      prefix == IF CompareMajorToV0(gm.major) = 1 THEN KnativePrefix ELSE Empty
  IN IF version # Latest
     THEN IF ~gm.validity
          THEN [URL |-> Empty, err |-> NotSemverError(version)]
          ELSE [URL |-> DownloadBase \o prefix \o version \o OperatorYaml,
                err |-> ""]
     ELSE [URL |-> LatestURL, err |-> ""]

\* ------------------------------------------------------------------ flags

\* installCmdFlags.  KubeConfig only selects the cluster credentials; whether
\* a client can be built from it is an outcome of NewKubeClient below.
MkFlags(c, i, n, v) ==
  [Component |-> c, IstioNamespace |-> i, Namespace |-> n, Version |-> v]

\* fill_defaults with the istio namespace defaulted for every component.
fill_defaults_IstioAlways(flags) ==
  LET f1 == IF flags.Version = Empty
            THEN [flags EXCEPT !.Version = Latest] ELSE flags
      f2 == IF f1.IstioNamespace = Empty
            THEN [f1 EXCEPT !.IstioNamespace = DefaultIstioNamespace] ELSE f1
  IN IF f2.Namespace = Empty
     THEN IF EqualFold(f2.Component, ServingComponent)
          THEN [f2 EXCEPT !.Namespace = DefaultKnativeServingNamespace]
          ELSE IF EqualFold(f2.Component, EventingComponent)
          THEN [f2 EXCEPT !.Namespace = DefaultKnativeEventingNamespace]
          ELSE IF f2.Component = Empty
          THEN [f2 EXCEPT !.Namespace = DefaultNamespace]
          ELSE f2
     ELSE f2

\* installCmdFlags.fill_defaults
fill_defaults(flags) ==
  LET f1 == IF flags.Version = Empty
            THEN [flags EXCEPT !.Version = Latest] ELSE flags
      f2 == IF f1.IstioNamespace = Empty /\ EqualFold(f1.Component, ServingComponent)
            THEN [f1 EXCEPT !.IstioNamespace = DefaultIstioNamespace] ELSE f1
  IN IF f2.Namespace = Empty
     THEN IF EqualFold(f2.Component, ServingComponent)
          THEN [f2 EXCEPT !.Namespace = DefaultKnativeServingNamespace]
          ELSE IF EqualFold(f2.Component, EventingComponent)
          THEN [f2 EXCEPT !.Namespace = DefaultKnativeEventingNamespace]
          ELSE IF f2.Component = Empty
          THEN [f2 EXCEPT !.Namespace = DefaultNamespace]
          ELSE f2
     ELSE f2

\* ------------------------------------------------ Overlay Content Selector

\* os.Getwd() of the process
RootPath == "."

\* The path getOverlayYamlContent selects, "" for no matching component.
OverlayPath(installFlags, rootPath) ==
  IF EqualFold(installFlags.Component, ServingComponent)
  THEN IF installFlags.IstioNamespace # DefaultIstioNamespace
       THEN rootPath \o "/overlay/ks_istio_ns.yaml"
       ELSE rootPath \o "/overlay/ks.yaml"
  ELSE IF EqualFold(installFlags.Component, EventingComponent)
  THEN rootPath \o "/overlay/ke.yaml"
  ELSE IF installFlags.Component = Empty
  THEN rootPath \o "/overlay/operator.yaml"
  ELSE ""

\* getOverlayYamlContent: the content of the selected file, and "" when no
\* path is selected or the file cannot be read (the read error is dropped).
\* The content of a file is represented by the path it was read from.
getOverlayYamlContent(installFlags, rootPath, readable) ==
  LET path == OverlayPath(installFlags, rootPath)
  IN IF path = "" \/ ~readable THEN "" ELSE path

ValuesHeader(name, installFlags) ==
  << "#@data/values", "---",
     "name: " \o Str(name),
     "namespace: " \o Str(installFlags.Namespace),
     "version: '" \o Str(installFlags.Version) \o "'" >>

GatewayLine(istioNamespace) ==
  "local_gateway_value: knative-local-gateway." \o Str(istioNamespace)
     \o ".svc.cluster.local"

\* getYamlValuesContent with the component compared case-sensitively.
getYamlValuesContent_CaseSensitive(installFlags) ==
  IF installFlags.Component = ServingComponent
  THEN IF installFlags.IstioNamespace # DefaultIstioNamespace
       THEN Append(ValuesHeader(DefaultKnativeServingNamespace, installFlags),
                   GatewayLine(installFlags.IstioNamespace))
       ELSE ValuesHeader(DefaultKnativeServingNamespace, installFlags)
  ELSE IF installFlags.Component = EventingComponent
  THEN ValuesHeader(DefaultKnativeEventingNamespace, installFlags)
  ELSE IF installFlags.Component = Empty
  THEN << "#@data/values", "---", "namespace: " \o Str(installFlags.Namespace) >>
  ELSE << >>

\* getYamlValuesContent: the values text as the sequence of its lines
\* (<< >> is the empty text).
getYamlValuesContent(installFlags) ==
  IF EqualFold(installFlags.Component, ServingComponent)
  THEN IF installFlags.IstioNamespace # DefaultIstioNamespace
       THEN Append(ValuesHeader(DefaultKnativeServingNamespace, installFlags),
                   GatewayLine(installFlags.IstioNamespace))
       ELSE ValuesHeader(DefaultKnativeServingNamespace, installFlags)
  ELSE IF EqualFold(installFlags.Component, EventingComponent)
  THEN ValuesHeader(DefaultKnativeEventingNamespace, installFlags)
  ELSE IF installFlags.Component = Empty
  THEN << "#@data/values", "---", "namespace: " \o Str(installFlags.Namespace) >>
  ELSE << >>

\* The values text of the legacy command (part_000 line 120).
LegacyValuesContent(installFlags) ==
  << "#@data/values", "---", "namespace: " \o Str(installFlags.Namespace) >>
\* ------------------------------------------------------------------ state

VARIABLES
  impl,               \* which revision of the command runs
  args,               \* the flags as parsed from the command line
  flags,              \* installFlags, the package-level flag structure
  pc,                 \* position of the command
  nested,             \* inside the operator install started by installKnativeComponent
  namespaces,         \* cluster: the namespaces that exist
  operatorInstalled,  \* cluster: the operator deployment exists
  calls,              \* every call the command has made, with its outcome
  applied,            \* what was handed to the manifest applier, in order
  tempDir,            \* the scratch directory: "none", "exists", "removed"
  result,             \* what RunE returned: [state, err]
  stdout,             \* lines written to the command's output
  ret,                \* SpecPure: the function applied last and its result
  invocations         \* SpecProvision: the provisioner's invocations

vars ==
  << impl, args, flags, pc, nested, namespaces, operatorInstalled, calls,
     applied, tempDir, result, stdout, ret, invocations >>

\* ---------------------------------------------------------------- inputs

MyNs == <<"m","y","-","n","s">>
MeshNs == <<"m","e","s","h","-","n","s">>
V190 == <<"v","1",".","9",".","0">>
Abc == <<"a","b","c">>
Bare0260 == <<"0",".","2","6",".","0">>

Components ==
  { Empty, ServingComponent, <<"S","e","r","v","i","n","g">>,
    EventingComponent, <<"b","o","g","u","s">> }
IstioInputs == { Empty, DefaultIstioNamespace, MeshNs }
NamespaceInputs == { Empty, DefaultNamespace, MyNs }
VersionInputs == { Empty, Latest, V190, Abc, Bare0260 }

\* The namespace "default" exists in every cluster.
OtherNamespaces ==
  { MyNs, DefaultKnativeServingNamespace, DefaultKnativeEventingNamespace }
Clusters == { S \cup {DefaultNamespace} : S \in SUBSET OtherNamespaces }

NoRet == [fn |-> "none"]
Running == [state |-> "running", err |-> ""]

Init ==
  /\ impl \in {"current", "legacy"}
  /\ \E c \in Components, i \in IstioInputs,
        n \in NamespaceInputs, v \in VersionInputs :
        /\ impl = "legacy" => (c = Empty /\ i = Empty)
        /\ flags = MkFlags(c, i, n, v)
  /\ args = flags
  /\ pc = IF impl = "current" THEN "RunE" ELSE "lg_client"
  /\ nested = FALSE
  /\ namespaces \in Clusters
  /\ operatorInstalled \in BOOLEAN
  /\ calls = << >>
  /\ applied = << >>
  /\ tempDir = "none"
  /\ result = Running
  /\ stdout = << >>
  /\ ret = NoRet
  /\ invocations = << >>

\* ------------------------------------------------------- external calls

Call(op, arg, out) == [op |-> op, arg |-> arg, out |-> out, nested |-> nested]

KubeConfigError ==
  "cannot get source cluster kube config, please use --kubeconfig or export environment variable KUBECONFIG to set\n"

\* Outcomes the environment chooses for one run of the provisioner.
ProvisionOutcomes == [client : BOOLEAN, getErr : BOOLEAN, createErr : BOOLEAN]

\* What Namespaces().Get answers.  client-go refuses an empty resource name
\* before any request is sent.
NamespaceGet(name, nss, o) ==
  IF name = Empty \/ o.getErr THEN "error"
  ELSE IF name \in nss THEN "ok" ELSE "notfound"

\* common.Namespace.CreateNamespace(namespace): create the namespace if the
\* existence check answers not-found; any other error of the check, and an
\* error of the creation, is returned.  [err, namespaces, calls]
CreateNamespace(name, nss, o, nest) ==
  LET got == NamespaceGet(name, nss, o)
      g == [op |-> "Namespaces.Get", arg |-> name, out |-> got, nested |-> nest]
      c == [op |-> "Namespaces.Create", arg |-> name,
            out |-> IF o.createErr THEN "error" ELSE "ok", nested |-> nest]
  IN IF got = "notfound"
     THEN IF o.createErr
          THEN [err |-> "namespace create failed", namespaces |-> nss, calls |-> <<g, c>>]
          ELSE [err |-> "", namespaces |-> nss \cup {name}, calls |-> <<g, c>>]
     ELSE IF got = "error"
          THEN [err |-> "namespace get failed", namespaces |-> nss, calls |-> <<g>>]
          ELSE [err |-> "", namespaces |-> nss, calls |-> <<g>>]

\* install.createNamspaceIfNecessary(namespace, p): [err, namespaces, calls]
createNamspaceIfNecessary(name, nss, o, nest) ==
  LET k == [op |-> "NewKubeClient", arg |-> Empty,
            out |-> IF o.client THEN "ok" ELSE "error", nested |-> nest]
      r == CreateNamespace(name, nss, o, nest)
  IN IF ~o.client
     THEN [err |-> KubeConfigError, namespaces |-> nss, calls |-> <<k>>]
     ELSE [err |-> r.err, namespaces |-> r.namespaces, calls |-> <<k>> \o r.calls]

\* The legacy namespace block with its first test inverted: only "default" is
\* looked at.
LegacyEnsureNamespace_Inverted(name, nss, o, nest) ==
  LET got == NamespaceGet(name, nss, o)
      g == [op |-> "Namespaces.Get", arg |-> name, out |-> got, nested |-> nest]
      c == [op |-> "Namespaces.Create", arg |-> name,
            out |-> IF o.createErr THEN "error" ELSE "ok", nested |-> nest]
  IN IF name = DefaultNamespace
     THEN IF got = "notfound"
          THEN [err |-> "",
                namespaces |-> IF o.createErr THEN nss ELSE nss \cup {name},
                calls |-> <<g, c>>]
          ELSE IF got = "error"
               THEN [err |-> "namespace get failed", namespaces |-> nss, calls |-> <<g>>]
               ELSE [err |-> "", namespaces |-> nss, calls |-> <<g>>]
     ELSE [err |-> "", namespaces |-> nss, calls |-> << >>]

\* The namespace block of the legacy command (part_000 lines 96-106): skipped
\* for "default"; the result of Create is dropped.  [err, namespaces, calls]
LegacyEnsureNamespace(name, nss, o, nest) ==
  LET got == NamespaceGet(name, nss, o)
      g == [op |-> "Namespaces.Get", arg |-> name, out |-> got, nested |-> nest]
      c == [op |-> "Namespaces.Create", arg |-> name,
            out |-> IF o.createErr THEN "error" ELSE "ok", nested |-> nest]
  IN IF name # DefaultNamespace
     THEN IF got = "notfound"
          THEN [err |-> "",
                namespaces |-> IF o.createErr THEN nss ELSE nss \cup {name},
                calls |-> <<g, c>>]
          ELSE IF got = "error"
               THEN [err |-> "namespace get failed", namespaces |-> nss, calls |-> <<g>>]
               ELSE [err |-> "", namespaces |-> nss, calls |-> <<g>>]
     ELSE [err |-> "", namespaces |-> nss, calls |-> << >>]
\* common.ApplyManifests(template, overlay, values, p): render the three
\* documents through the overlay engine, then hand the result to the applier.
\* outcome is the environment's: "ok", "template" (the engine rejects the
\* input: nothing reaches the applier) or "apply" (the applier fails).  The
\* cluster refuses objects of a namespace that does not exist.
\* [err, handed, ok]: handed says whether the applier was called.
ApplyManifests(ns, nss, outcome) ==
  IF outcome = "template"
  THEN [err |-> "template error", handed |-> FALSE, ok |-> FALSE]
  ELSE IF outcome = "apply" \/ ns \notin nss
  THEN [err |-> "apply error", handed |-> TRUE, ok |-> FALSE]
  ELSE [err |-> "", handed |-> TRUE, ok |-> TRUE]

ApplyOutcomes == {"ok", "template", "apply"}

\* The flags of the operator install that installKnativeComponent starts
\* (install.go lines 180-183).
operatorInstallFlags == MkFlags(Empty, Empty, DefaultNamespace, Latest)

\* The installFlags parameter of the installOperator call that is running.
cur == IF nested THEN operatorInstallFlags ELSE flags

Finish(err) ==
  /\ pc' = "done"
  /\ result' = [state |-> IF err = "" THEN "ok" ELSE "err", err |-> err]

\* installOperator returns err to its caller: RunE propagates it, and
\* installKnativeComponent (line 184) drops it and goes on.
OperatorReturn(err) ==
  IF nested
  THEN /\ pc' = "kc_ns"
       /\ nested' = FALSE
       /\ result' = result
  ELSE /\ nested' = nested
       /\ IF err = ""
          THEN pc' = "report" /\ result' = result
          ELSE Finish(err)

\* installKnativeComponent returns err to RunE.
ComponentReturn(err) ==
  IF err = "" THEN pc' = "report" /\ result' = result ELSE Finish(err)

\* ------------------------------------------- the command (install.go)

\* RunE lines 70-92: fill_defaults, os.Getwd, and the choice of the path.
RunE ==
  /\ pc = "RunE"
  /\ flags' = fill_defaults(flags)
  /\ \E ok \in BOOLEAN :
       /\ calls' = Append(calls, Call("Getwd", Empty, IF ok THEN "ok" ELSE "error"))
       /\ IF ~ok
          THEN Finish("getwd failed")
          ELSE /\ pc' = IF flags'.Component # Empty THEN "kc_client" ELSE "op_ns"
               /\ result' = result
  /\ UNCHANGED << impl, args, nested, namespaces, operatorInstalled, applied,
                  tempDir, stdout, ret, invocations >>

\* installKnativeComponent lines 167-170
ComponentNewKubeClient ==
  /\ pc = "kc_client"
  /\ \E ok \in BOOLEAN :
       /\ calls' = Append(calls, Call("NewKubeClient", Empty, IF ok THEN "ok" ELSE "error"))
       /\ IF ok THEN pc' = "kc_check" /\ result' = result
                ELSE Finish(KubeConfigError)
  /\ UNCHANGED << impl, args, flags, nested, namespaces, operatorInstalled,
                  applied, tempDir, stdout, ret, invocations >>

\* installKnativeComponent lines 176-185: deploy.CheckIfOperatorInstalled
\* answers whether the operator deployment exists, or fails.
CheckIfOperatorInstalled ==
  /\ pc = "kc_check"
  /\ \E ok \in BOOLEAN :
       /\ calls' = Append(calls,
            Call("CheckIfOperatorInstalled", Empty,
                 IF ~ok THEN "error"
                 ELSE IF operatorInstalled THEN "present" ELSE "missing"))
       /\ IF ~ok
          THEN Finish("operator check failed") /\ nested' = nested
          ELSE /\ result' = result
               /\ IF operatorInstalled
                  THEN pc' = "kc_ns" /\ nested' = nested
                  ELSE pc' = "op_ns" /\ nested' = TRUE
  /\ UNCHANGED << impl, args, flags, namespaces, operatorInstalled, applied,
                  tempDir, stdout, ret, invocations >>

\* installOperator lines 202-205
OperatorCreateNamespace ==
  /\ pc = "op_ns"
  /\ \E o \in ProvisionOutcomes :
       LET r == createNamspaceIfNecessary(cur.Namespace, namespaces, o, nested)
       IN /\ calls' = calls \o r.calls
          /\ namespaces' = r.namespaces
          /\ IF r.err = ""
             THEN pc' = "op_url" /\ UNCHANGED << nested, result >>
             ELSE OperatorReturn(r.err)
  /\ UNCHANGED << impl, args, flags, operatorInstalled, applied, tempDir,
                  stdout, ret, invocations >>

\* installOperator lines 207-210
OperatorGetURL ==
  /\ pc = "op_url"
  /\ LET r == getOperatorURL(cur.Version)
     IN /\ calls' = Append(calls,
             Call("getOperatorURL", cur.Version, IF r.err = "" THEN "ok" ELSE "error"))
        /\ IF r.err = ""
           THEN pc' = "op_download" /\ UNCHANGED << nested, result >>
           ELSE OperatorReturn(r.err)
  /\ UNCHANGED << impl, args, flags, namespaces, operatorInstalled, applied,
                  tempDir, stdout, ret, invocations >>

\* installOperator lines 212-216: common.DownloadFile(URL)
OperatorDownload ==
  /\ pc = "op_download"
  /\ \E ok \in BOOLEAN :
       /\ calls' = Append(calls,
            Call("DownloadFile", getOperatorURL(cur.Version).URL,
                 IF ok THEN "ok" ELSE "error"))
       /\ IF ok
          THEN pc' = "op_apply" /\ UNCHANGED << nested, result >>
          ELSE OperatorReturn("download failed")
  /\ UNCHANGED << impl, args, flags, namespaces, operatorInstalled, applied,
                  tempDir, stdout, ret, invocations >>

\* What applyOverlayValuesOnTemplate (lines 237-245) hands to ApplyManifests.
Manifest(template, f, readable) ==
  [ template |-> template,
    overlay |-> getOverlayYamlContent(f, RootPath, readable),
    values |-> getYamlValuesContent(f),
    flags |-> f,
    nsExists |-> f.Namespace \in namespaces,
    nested |-> nested ]

\* installOperator line 218: the downloaded manifest is rendered and applied.
\* The content of the download is represented by its URL.
OperatorApply ==
  /\ pc = "op_apply"
  /\ \E outcome \in ApplyOutcomes, readable \in BOOLEAN :
       LET r == ApplyManifests(cur.Namespace, namespaces, outcome)
           m == Manifest(getOperatorURL(cur.Version).URL, cur, readable)
       IN /\ calls' = calls
               \o << Call("ReadFile", Empty, IF readable THEN "ok" ELSE "error") >>
               \o << Call("render", Empty, IF r.handed THEN "ok" ELSE "error") >>
               \o (IF r.handed
                   THEN << Call("apply", cur.Namespace, IF r.ok THEN "ok" ELSE "error") >>
                   ELSE << >>)
          /\ applied' = IF r.handed THEN Append(applied, m) ELSE applied
          /\ operatorInstalled' = (operatorInstalled \/ r.ok)
          /\ OperatorReturn(r.err)
  /\ UNCHANGED << impl, args, flags, namespaces, tempDir, stdout, ret, invocations >>

\* installKnativeComponent lines 187-190
ComponentCreateNamespace ==
  /\ pc = "kc_ns"
  /\ \E o \in ProvisionOutcomes :
       LET r == createNamspaceIfNecessary(flags.Namespace, namespaces, o, FALSE)
       IN /\ calls' = calls \o r.calls
          /\ namespaces' = r.namespaces
          /\ IF r.err = "" THEN pc' = "kc_crgen" /\ result' = result
                           ELSE Finish(r.err)
  /\ UNCHANGED << impl, args, flags, nested, operatorInstalled, applied, tempDir,
                  stdout, ret, invocations >>

InvalidComponentError(component) == "invalid component: " \o Str(component)

\* common.GenerateOperatorCRString(component, namespace, p): the custom
\* resource of the component, generated in memory.  Its source is not among
\* the files; a component that is neither serving nor eventing is rejected
\* (InvalidComponent), and the generation can fail for want of a client.
OperatorCRString(component, ok) ==
  IF ~(EqualFold(component, ServingComponent) \/ EqualFold(component, EventingComponent))
  THEN [err |-> InvalidComponentError(component)]
  ELSE IF ~ok THEN [err |-> "custom resource generation failed"]
  ELSE [err |-> ""]

\* Lines 192-196 with the error of GenerateOperatorCRString not looked at.
GenerateOperatorCRString_ErrDropped ==
  /\ pc = "kc_crgen"
  /\ \E ok \in BOOLEAN :
       LET r == OperatorCRString(flags.Component, ok)
       IN /\ calls' = Append(calls,
               Call("GenerateOperatorCRString", flags.Component,
                    IF r.err = "" THEN "ok" ELSE "error"))
          /\ pc' = "kc_apply" /\ result' = result
  /\ UNCHANGED << impl, args, flags, nested, namespaces, operatorInstalled,
                  applied, tempDir, stdout, ret, invocations >>

\* installKnativeComponent lines 192-196: common.GenerateOperatorCRString
GenerateOperatorCRString ==
  /\ pc = "kc_crgen"
  /\ \E ok \in BOOLEAN :
       LET r == OperatorCRString(flags.Component, ok)
       IN /\ calls' = Append(calls,
               Call("GenerateOperatorCRString", flags.Component,
                    IF r.err = "" THEN "ok" ELSE "error"))
          /\ IF r.err = "" THEN pc' = "kc_apply" /\ result' = result
                           ELSE Finish(r.err)
  /\ UNCHANGED << impl, args, flags, nested, namespaces, operatorInstalled,
                  applied, tempDir, stdout, ret, invocations >>

\* installKnativeComponent line 198: the generated custom resource is
\* rendered and applied.
ComponentApply ==
  /\ pc = "kc_apply"
  /\ \E outcome \in ApplyOutcomes, readable \in BOOLEAN :
       LET r == ApplyManifests(flags.Namespace, namespaces, outcome)
           m == Manifest("CR " \o Str(flags.Component) \o " in " \o Str(flags.Namespace),
                         flags, readable)
       IN /\ calls' = calls
               \o << Call("ReadFile", Empty, IF readable THEN "ok" ELSE "error") >>
               \o << Call("render", Empty, IF r.handed THEN "ok" ELSE "error") >>
               \o (IF r.handed
                   THEN << Call("apply", flags.Namespace, IF r.ok THEN "ok" ELSE "error") >>
                   ELSE << >>)
          /\ applied' = IF r.handed THEN Append(applied, m) ELSE applied
          /\ ComponentReturn(r.err)
  /\ UNCHANGED << impl, args, flags, nested, namespaces, operatorInstalled,
                  tempDir, stdout, ret, invocations >>

\* The confirmation line with its two arguments in the wrong order.
ConfirmationLine_Swapped(f) ==
  "Knative operator of the '" \o Str(f.Namespace)
     \o "' version was created in the namespace '" \o Str(f.Version) \o "'.\n"

\* The line RunE writes on success (line 94).
ConfirmationLine(f) ==
  "Knative operator of the '" \o Str(f.Version)
     \o "' version was created in the namespace '" \o Str(f.Namespace) \o "'.\n"

\* RunE lines 94-95
Report ==
  /\ pc = "report"
  /\ stdout' = Append(stdout, ConfirmationLine(flags))
  /\ Finish("")
  /\ UNCHANGED << impl, args, flags, nested, namespaces, operatorInstalled, calls,
                  applied, tempDir, ret, invocations >>
\* ------------------------------------- the legacy command (part_000)

\* A step of the legacy RunE that only succeeds or fails: on failure RunE
\* returns the error at once.
LegacyStep(at, op, next, err) ==
  /\ pc = at
  /\ \E ok \in BOOLEAN :
       /\ calls' = Append(calls, Call(op, Empty, IF ok THEN "ok" ELSE "error"))
       /\ IF ok THEN pc' = next /\ result' = result ELSE Finish(err)

\* lines 62-65
LegacyNewKubeClient ==
  /\ LegacyStep("lg_client", "NewKubeClient", "lg_rest", KubeConfigError)
  /\ UNCHANGED << impl, args, flags, nested, namespaces, operatorInstalled,
                  applied, tempDir, stdout, ret, invocations >>

\* lines 67-70
LegacyRestConfig ==
  /\ LegacyStep("lg_rest", "RestConfig", "lg_getwd", "rest config failed")
  /\ UNCHANGED << impl, args, flags, nested, namespaces, operatorInstalled,
                  applied, tempDir, stdout, ret, invocations >>

\* lines 72-75
LegacyGetwd ==
  /\ LegacyStep("lg_getwd", "Getwd", "lg_url", "getwd failed")
  /\ UNCHANGED << impl, args, flags, nested, namespaces, operatorInstalled,
                  applied, tempDir, stdout, ret, invocations >>

\* lines 77-80
LegacyGetURL ==
  /\ pc = "lg_url"
  /\ LET r == GetOperatorURL(flags.Version)
     IN /\ calls' = Append(calls,
             Call("GetOperatorURL", flags.Version, IF r.err = "" THEN "ok" ELSE "error"))
        /\ IF r.err = "" THEN pc' = "lg_download" /\ result' = result
                         ELSE Finish(r.err)
  /\ UNCHANGED << impl, args, flags, nested, namespaces, operatorInstalled,
                  applied, tempDir, stdout, ret, invocations >>

\* lines 82-85
LegacyDownload ==
  /\ pc = "lg_download"
  /\ \E ok \in BOOLEAN :
       /\ calls' = Append(calls,
            Call("DownloadFile", GetOperatorURL(flags.Version).URL,
                 IF ok THEN "ok" ELSE "error"))
       /\ IF ok THEN pc' = "lg_overlay" /\ result' = result
                ELSE Finish("download failed")
  /\ UNCHANGED << impl, args, flags, nested, namespaces, operatorInstalled,
                  applied, tempDir, stdout, ret, invocations >>

\* lines 89-93
LegacyReadOverlay ==
  /\ LegacyStep("lg_overlay", "ReadFile", "lg_ns", "overlay read failed")
  /\ UNCHANGED << impl, args, flags, nested, namespaces, operatorInstalled,
                  applied, tempDir, stdout, ret, invocations >>

\* lines 96-106
LegacyNamespace ==
  /\ pc = "lg_ns"
  /\ \E o \in ProvisionOutcomes :
       LET r == LegacyEnsureNamespace(flags.Namespace, namespaces, o, FALSE)
       IN /\ calls' = calls \o r.calls
          /\ namespaces' = r.namespaces
          /\ IF r.err = "" THEN pc' = "lg_mkdir" /\ result' = result
                           ELSE Finish(r.err)
  /\ UNCHANGED << impl, args, flags, nested, operatorInstalled, applied, tempDir,
                  stdout, ret, invocations >>

\* lines 108-114: os.Mkdir of /tmp/temp-<milliseconds>; it fails when the
\* directory exists.
LegacyMkdir ==
  /\ LegacyStep("lg_mkdir", "Mkdir", "lg_render", "mkdir failed")
  /\ tempDir' = IF pc' = "lg_render" THEN "exists" ELSE tempDir
  /\ UNCHANGED << impl, args, flags, nested, namespaces, operatorInstalled,
                  applied, stdout, ret, invocations >>

\* lines 116-132: the overlay engine renders the three documents.  Its error
\* is not looked at: out.Files[0] of a failed rendering is an index out of
\* range, and the process panics.
LegacyRender ==
  /\ LegacyStep("lg_render", "render", "lg_write", "panic: index out of range")
  /\ UNCHANGED << impl, args, flags, nested, namespaces, operatorInstalled,
                  applied, tempDir, stdout, ret, invocations >>

\* lines 134-137
LegacyWriteFile ==
  /\ LegacyStep("lg_write", "WriteFile", "lg_apply", "write failed")
  /\ UNCHANGED << impl, args, flags, nested, namespaces, operatorInstalled,
                  applied, tempDir, stdout, ret, invocations >>

\* lines 139-142: common.ApplyFile (manifest.go lines 29-40).  The cluster
\* refuses objects of a namespace that does not exist.
LegacyApplyFile ==
  /\ pc = "lg_apply"
  /\ \E fails \in BOOLEAN :
       LET ok == ~fails /\ flags.Namespace \in namespaces
       IN /\ calls' = Append(calls, Call("apply", flags.Namespace, IF ok THEN "ok" ELSE "error"))
          /\ applied' = Append(applied,
               [ template |-> GetOperatorURL(flags.Version).URL,
                 overlay |-> RootPath \o "/overlay/operator.yaml",
                 values |-> LegacyValuesContent(flags),
                 flags |-> flags,
                 nsExists |-> flags.Namespace \in namespaces,
                 nested |-> FALSE ])
          /\ operatorInstalled' = (operatorInstalled \/ ok)
          /\ IF ok THEN pc' = "lg_remove" /\ result' = result
                   ELSE Finish("apply error")
  /\ UNCHANGED << impl, args, flags, nested, namespaces, tempDir, stdout, ret,
                  invocations >>

\* lines 144-149: os.RemoveAll(tempDir), then return nil
LegacyRemoveAll ==
  /\ pc = "lg_remove"
  /\ \E ok \in BOOLEAN :
       /\ calls' = Append(calls, Call("RemoveAll", Empty, IF ok THEN "ok" ELSE "error"))
       /\ tempDir' = IF ok THEN "removed" ELSE tempDir
       /\ Finish(IF ok THEN "" ELSE "remove failed")
  /\ UNCHANGED << impl, args, flags, nested, namespaces, operatorInstalled,
                  applied, stdout, ret, invocations >>

\* ---------------------------------------------------------- specification

Next ==
  \/ RunE
  \/ ComponentNewKubeClient
  \/ CheckIfOperatorInstalled
  \/ OperatorCreateNamespace
  \/ OperatorGetURL
  \/ OperatorDownload
  \/ OperatorApply
  \/ ComponentCreateNamespace
  \/ GenerateOperatorCRString
  \/ ComponentApply
  \/ Report
  \/ LegacyNewKubeClient
  \/ LegacyRestConfig
  \/ LegacyGetwd
  \/ LegacyGetURL
  \/ LegacyDownload
  \/ LegacyReadOverlay
  \/ LegacyNamespace
  \/ LegacyMkdir
  \/ LegacyRender
  \/ LegacyWriteFile
  \/ LegacyApplyFile
  \/ LegacyRemoveAll

Spec == Init /\ [][Next]_vars
\* ------------------------------------------------ the functions on their own

RECURSIVE Dec(_)
\* The decimal numeral of n
Dec(n) == IF n < 10 THEN << Digits[n + 1] >> ELSE Dec(n \div 10) \o << Digits[(n % 10) + 1] >>

\* vMAJOR.MINOR.PATCH, or MAJOR.MINOR.PATCH without the leading "v"
Render(hasV, major, minor, patch) ==
  (IF hasV THEN <<"v">> ELSE << >>)
    \o Dec(major) \o <<".">> \o Dec(minor) \o <<".">> \o Dec(patch)

ReleaseVersions ==
  { Render(hasV, major, minor, patch) :
      hasV \in BOOLEAN, major \in 0..MaxMajor,
      minor \in 0..MaxMinor, patch \in 0..MaxMinor }

\* Other version strings: case variants, short forms, pre-releases, junk.
OtherVersions ==
  { Empty, Latest, Abc, V190,
    <<"L","a","t","e","s","t">>, <<"L","A","T","E","S","T">>,
    <<"V","1",".","2",".","3">>, <<"v","1",".","2",".","3">>,
    <<"1",".","2">>, <<"v","1">>, <<"v">>, <<"v","v","1",".","2",".","3">>,
    <<"v","0","1",".","2",".","3">>, <<"v","1",".","2",".","3",".","4">>,
    <<"v","1",".","2",".","3","-","R","C","1">>,
    <<"v","1",".","2",".","3","-","r","c","1">>,
    <<"1",".","2",".","3","-","R","C",".","0","1">>,
    <<"v","1",".","2",".","3","+","B","7">>,
    <<"v","1",".","2",".","3","-">> }

PureInputs ==
  { MkFlags(c, i, n, v) :
      c \in Components, i \in IstioInputs, n \in NamespaceInputs, v \in VersionInputs }
  \cup { MkFlags(Empty, Empty, Empty, v) : v \in ReleaseVersions \cup OtherVersions }

InitPure ==
  /\ impl = "current"
  /\ flags \in PureInputs
  /\ args = flags
  /\ pc = "pure"
  /\ nested = FALSE
  /\ namespaces = {DefaultNamespace}
  /\ operatorInstalled = FALSE
  /\ calls = << >>
  /\ applied = << >>
  /\ tempDir = "none"
  /\ result = Running
  /\ stdout = << >>
  /\ ret = NoRet
  /\ invocations = << >>

Ret(fn, url, err, f, values, overlay) ==
  [fn |-> fn, URL |-> url, err |-> err, flags |-> f, values |-> values, overlay |-> overlay]

PureUnchanged ==
  UNCHANGED << impl, args, flags, pc, nested, namespaces, operatorInstalled, calls,
               applied, tempDir, result, stdout, invocations >>

Apply_getOperatorURL ==
  /\ pc = "pure"
  /\ LET r == getOperatorURL(flags.Version)
     IN ret' = Ret("getOperatorURL", r.URL, r.err, flags, << >>, "")
  /\ PureUnchanged

Apply_GetOperatorURL ==
  /\ pc = "pure"
  /\ LET r == GetOperatorURL(flags.Version)
     IN ret' = Ret("GetOperatorURL", r.URL, r.err, flags, << >>, "")
  /\ PureUnchanged

Apply_fill_defaults ==
  /\ pc = "pure"
  /\ ret' = Ret("fill_defaults", Empty, "", fill_defaults(flags), << >>, "")
  /\ PureUnchanged

Apply_getYamlValuesContent ==
  /\ pc = "pure"
  /\ ret' = Ret("getYamlValuesContent", Empty, "", flags, getYamlValuesContent(flags), "")
  /\ PureUnchanged

Apply_getOverlayYamlContent ==
  /\ pc = "pure"
  /\ \E readable \in BOOLEAN :
       ret' = Ret("getOverlayYamlContent", Empty, "", flags, << >>,
                  getOverlayYamlContent(flags, RootPath, readable))
  /\ PureUnchanged

NextPure ==
  \/ Apply_getOperatorURL
  \/ Apply_GetOperatorURL
  \/ Apply_fill_defaults
  \/ Apply_getYamlValuesContent
  \/ Apply_getOverlayYamlContent

SpecPure == InitPure /\ [][NextPure]_vars

\* ------------------------------------------ the provisioner on its own

ProvisionNames == NamespaceInputs \cup OtherNamespaces

InitProvision ==
  /\ impl \in {"current", "legacy"}
  /\ \E n \in ProvisionNames : flags = MkFlags(Empty, Empty, n, Latest)
  /\ args = flags
  /\ pc = "provision"
  /\ nested = FALSE
  /\ namespaces \in Clusters
  /\ operatorInstalled = FALSE
  /\ calls = << >>
  /\ applied = << >>
  /\ tempDir = "none"
  /\ result = Running
  /\ stdout = << >>
  /\ ret = NoRet
  /\ invocations = << >>

Invocation(r) == [err |-> r.err, calls |-> r.calls, before |-> namespaces]

\* One more invocation of the provisioner for the same namespace name.
Provision(r) ==
  /\ pc = "provision"
  /\ Len(invocations) < MaxInvocations
  /\ invocations' = Append(invocations, Invocation(r))
  /\ namespaces' = r.namespaces
  /\ calls' = calls \o r.calls
  /\ UNCHANGED << impl, args, flags, pc, nested, operatorInstalled, applied,
                  tempDir, result, stdout, ret >>

ProvisionCurrent ==
  /\ impl = "current"
  /\ \E o \in ProvisionOutcomes :
       Provision(createNamspaceIfNecessary(flags.Namespace, namespaces, o, FALSE))

ProvisionLegacy ==
  /\ impl = "legacy"
  /\ \E o \in ProvisionOutcomes :
       Provision(LegacyEnsureNamespace(flags.Namespace, namespaces, o, FALSE))

NextProvision == ProvisionCurrent \/ ProvisionLegacy

SpecProvision == InitProvision /\ [][NextProvision]_vars
\* ================================================================ claims

Range(seq) == { seq[i] : i \in 1..Len(seq) }

IsServing(c) == ToLower(c) = ServingComponent
IsEventing(c) == ToLower(c) = EventingComponent

\* The steps of the install command whose failure is an error of the step.
StepOps ==
  { "NewKubeClient", "CheckIfOperatorInstalled", "Namespaces.Get",
    "Namespaces.Create", "getOperatorURL", "DownloadFile",
    "GenerateOperatorCRString", "render", "apply" }

\* The calls that go to the cluster API or over HTTP.
NetworkOps ==
  { "CheckIfOperatorInstalled", "Namespaces.Get", "Namespaces.Create",
    "DownloadFile", "apply" }

\* C1: in a run of install.go's command, once a step has failed (kube client,
\* operator check, a step of the nested operator install, namespace creation,
\* URL resolution, download, CR generation, render/apply) no later step runs:
\* the failed call is the last call, the command has returned an error, and
\* nothing was written to the output.
C1_EveryFailureAborts ==
  impl = "current" =>
    \A i \in 1..Len(calls) :
      (calls[i].op \in StepOps /\ calls[i].out = "error")
        => /\ i = Len(calls)
           /\ pc = "done"
           /\ result.state = "err"
           /\ stdout = << >>

\* A version string that is neither "latest" (nor the empty default) nor a
\* semantic version, with or without the leading "v".
NotAVersion(v) ==
  /\ v \notin {Empty, Latest}
  /\ ~SemverIsValid(ToLower(v))
  /\ ~SemverIsValid(<<"v">> \o ToLower(v))

\* C2: in a run whose version is not a version, no cluster API call and no
\* download is ever issued, and the command, once returned, has failed.
C2_InvalidVersionBeforeNetwork ==
  NotAVersion(args.Version) =>
    /\ \A i \in 1..Len(calls) : calls[i].op \notin NetworkOps
    /\ pc = "done" => result.state = "err"

\* The release tag the claim expects in the URL: v verbatim.
C3_Expected(prefixed, tag) ==
  DownloadBase \o (IF prefixed THEN KnativePrefix ELSE Empty) \o tag \o OperatorYaml

\* C3 as stated: for v = [v]MAJOR.MINOR.PATCH both locators return, without
\* error, .../download/<prefix><v>/operator.yaml, <prefix> being "knative-"
\* exactly when MAJOR > 0.
C3_OriginalURLForm ==
  \A hasV \in BOOLEAN, major \in 0..MaxMajor, minor \in 0..MaxMinor, patch \in 0..MaxMinor :
    ( /\ ret.fn \in {"getOperatorURL", "GetOperatorURL"}
      /\ flags.Version = Render(hasV, major, minor, patch) )
    => /\ ret.err = ""
       /\ ret.URL = C3_Expected(major > 0, flags.Version)
       /\ Contains(ret.URL, flags.Version)

\* C3 amended: as above, but the path segment after <prefix> is v itself for
\* GetOperatorURL and, for getOperatorURL, v with the leading "v" added when
\* v has none; the URL contains v verbatim in both.
C3_URLForm ==
  \A hasV \in BOOLEAN, major \in 0..MaxMajor, minor \in 0..MaxMinor, patch \in 0..MaxMinor :
    ( /\ ret.fn \in {"getOperatorURL", "GetOperatorURL"}
      /\ flags.Version = Render(hasV, major, minor, patch) )
    => /\ ret.err = ""
       /\ ret.URL =
            C3_Expected(major > 0,
              IF ret.fn = "getOperatorURL"
              THEN Render(TRUE, major, minor, patch)
              ELSE flags.Version)
       /\ Contains(ret.URL, flags.Version)

\* getOperatorURL was applied to 10.0.1 (no leading "v", MAJOR > 0).
C3_Witness ==
  /\ ret.fn = "getOperatorURL"
  /\ flags.Version = <<"1","0",".","0",".","1">>
  /\ ret.err = ""
  /\ Contains(ret.URL, KnativePrefix \o <<"v","1","0",".","0",".","1">>)

\* C4: whatever is handed to the applier, the namespace of that install
\* request exists in the cluster at that moment.
C4_NamespaceBeforeApply ==
  \A i \in 1..Len(applied) : applied[i].nsExists

\* calls of the provisioner that failed, and its Create calls
ProvisionFailures == { i \in 1..Len(calls) : calls[i].out = "error" }
ProvisionCreates == { i \in 1..Len(calls) : calls[i].op = "Namespaces.Create" }

\* C5: invoked once or more in succession for one name, with no API call
\* failing, the provisioner succeeds every time, issues Create exactly once in
\* total if the namespace was missing at first and never if it was present,
\* and the namespace exists afterwards; an invocation whose existence check
\* fails returns an error and issues no Create.
C5_ProvisionerIdempotent ==
  /\ (Len(invocations) >= 1 /\ ProvisionFailures = {}) =>
        /\ \A k \in 1..Len(invocations) : invocations[k].err = ""
        /\ Cardinality(ProvisionCreates) =
             IF flags.Namespace \in invocations[1].before THEN 0 ELSE 1
        /\ flags.Namespace \in namespaces
  /\ \A k \in 1..Len(invocations) :
        (\E c \in Range(invocations[k].calls) :
            c.op = "Namespaces.Get" /\ c.out = "error")
        => /\ invocations[k].err # ""
           /\ \A c \in Range(invocations[k].calls) : c.op # "Namespaces.Create"

\* Two invocations of the legacy block for a namespace that was missing.
C5_Witness ==
  /\ impl = "legacy"
  /\ Len(invocations) = 2
  /\ ProvisionFailures = {}
  /\ flags.Namespace \notin invocations[1].before
  /\ Cardinality(ProvisionCreates) = 1
  /\ invocations[2].err = ""

\* C6: when the legacy command has returned (with success, or with an error
\* of a step that follows the creation of the scratch directory and is not
\* the removal itself), the scratch directory does not exist.
C6_TempDirRemoved ==
  ( /\ pc = "done"
    /\ result.err \notin {"panic: index out of range", "remove failed"} )
  => tempDir # "exists"
\* The gateway hostname line for some mesh namespace is in the values text.
HasGatewayLine(values) ==
  \E i \in IstioInputs : GatewayLine(i) \in Range(values)

\* C7: the values text holds the line
\* local_gateway_value: knative-local-gateway.<istioNamespace>.svc.cluster.local
\* exactly when the component is serving (in any case) and istioNamespace is
\* not "istio-system", and then it holds no other gateway line; in exactly
\* that case the overlay selector picks ks_istio_ns.yaml; for eventing the
\* values text holds no gateway line whatever istioNamespace is.
C7_GatewayLine ==
  LET meshAware == /\ IsServing(flags.Component)
                   /\ flags.IstioNamespace # <<"i","s","t","i","o","-","s","y","s","t","e","m">>
  IN /\ ret.fn = "getYamlValuesContent" =>
          /\ (GatewayLine(flags.IstioNamespace) \in Range(ret.values)) <=> meshAware
          /\ HasGatewayLine(ret.values) <=> meshAware
          /\ IsEventing(flags.Component) => Len(ret.values) = 5
     /\ ret.fn = "getOverlayYamlContent" =>
          (OverlayPath(flags, RootPath) = "./overlay/ks_istio_ns.yaml") <=> meshAware
     /\ (ret.fn = "getOverlayYamlContent" /\ ret.overlay = "./overlay/ks_istio_ns.yaml")
          => meshAware

\* getYamlValuesContent was applied to component "Serving" with mesh
\* namespace mesh-ns and produced the line.
C7_Witness ==
  /\ ret.fn = "getYamlValuesContent"
  /\ flags.Component = <<"S","e","r","v","i","n","g">>
  /\ flags.IstioNamespace = MeshNs
  /\ "local_gateway_value: knative-local-gateway.mesh-ns.svc.cluster.local"
        \in Range(ret.values)

NoFlags == MkFlags(Empty, Empty, Empty, Latest)

\* No call to a collaborator (cluster, network, file system, engine) failed.
ExternalCallsSucceed ==
  \A i \in 1..Len(calls) : calls[i].op # "getOperatorURL" => calls[i].out # "error"

\* C8: install with no flags, every external call succeeding: when the
\* command has returned it has succeeded, namespace "default" was checked and
\* exists, the latest-release URL was downloaded, the applier was called
\* exactly once with that manifest and the values text
\* "#@data/values\n---\nnamespace: default", and the one line written names
\* version latest and namespace default; nothing is written before the apply.
C8_ScenarioA ==
  ( /\ impl = "current"
    /\ args = NoFlags
    /\ ExternalCallsSucceed )
  => /\ stdout # << >> => pc = "done"
     /\ pc = "done" =>
          /\ result = [state |-> "ok", err |-> ""]
          /\ \E i \in 1..Len(calls) :
                calls[i].op = "Namespaces.Get" /\ calls[i].arg = DefaultNamespace
          /\ DefaultNamespace \in namespaces
          /\ \A i \in 1..Len(calls) :
                calls[i].op = "DownloadFile" => calls[i].arg = LatestURL
          /\ \E i \in 1..Len(calls) : calls[i].op = "DownloadFile"
          /\ Cardinality({ i \in 1..Len(calls) : calls[i].op = "apply" }) = 1
          /\ Len(applied) = 1
          /\ applied[1].template = LatestURL
          /\ applied[1].values = << "#@data/values", "---", "namespace: default" >>
          /\ applied[1].overlay = "./overlay/operator.yaml"
          /\ stdout =
               << "Knative operator of the 'latest' version was created in the namespace 'default'.\n" >>

C8_Witness ==
  /\ impl = "current"
  /\ args = NoFlags
  /\ ExternalCallsSucceed
  /\ pc = "done"
  /\ Len(applied) = 1
  /\ stdout # << >>

ScenarioB == MkFlags(ServingComponent, Empty, MyNs, V190)

\* C9: after fill_defaults (install.go's command past its first step) the
\* version is "latest" if it was empty; an empty namespace has become the
\* serving default for serving, the eventing default for eventing, "default"
\* for the empty component; an empty istioNamespace has become "istio-system"
\* for serving and is still empty for any other component; a flag given
\* non-empty is unchanged.  For install -c serving -n my-ns -v v1.9.0 the
\* custom resource is applied with a values text that holds version: 'v1.9.0'
\* and no gateway line.
C9_DefaultFilling ==
  (impl = "current" /\ pc # "RunE") =>
    /\ flags.Component = args.Component
    /\ flags.Version = IF args.Version = Empty THEN Latest ELSE args.Version
    /\ args.Namespace # Empty => flags.Namespace = args.Namespace
    /\ args.Namespace = Empty =>
         /\ IsServing(args.Component) => flags.Namespace = DefaultKnativeServingNamespace
         /\ IsEventing(args.Component) => flags.Namespace = DefaultKnativeEventingNamespace
         /\ args.Component = Empty => flags.Namespace = <<"d","e","f","a","u","l","t">>
    /\ args.IstioNamespace # Empty => flags.IstioNamespace = args.IstioNamespace
    /\ args.IstioNamespace = Empty =>
         flags.IstioNamespace =
           IF IsServing(args.Component)
           THEN <<"i","s","t","i","o","-","s","y","s","t","e","m">> ELSE Empty
    /\ args = ScenarioB =>
         /\ flags.Namespace = MyNs
         /\ \A i \in 1..Len(applied) :
              ~applied[i].nested =>
                 /\ "version: 'v1.9.0'" \in Range(applied[i].values)
                 /\ "namespace: my-ns" \in Range(applied[i].values)
                 /\ ~HasGatewayLine(applied[i].values)
         /\ pc = "done" /\ result.state = "ok" =>
              \E i \in 1..Len(applied) : ~applied[i].nested

\* install -c serving -n my-ns -v v1.9.0 has succeeded.
C9_Witness ==
  /\ impl = "current"
  /\ args = ScenarioB
  /\ pc = "done"
  /\ result.state = "ok"
  /\ flags.IstioNamespace = DefaultIstioNamespace
  /\ \E i \in 1..Len(applied) : ~applied[i].nested

\* C10: a version whose lower-case form is a semantic version (with or
\* without the leading "v") is accepted by both locators and resolves to the
\* URL of its lower-case form.
C10_CaseVariantsAccepted ==
  LET v == flags.Version
      low == ToLower(v)
  IN ( /\ ret.fn \in {"getOperatorURL", "GetOperatorURL"}
       /\ v # Latest
       /\ SemverIsValid(low) \/ SemverIsValid(<<"v">> \o low) )
     => /\ ret.err = ""
        /\ ret.fn = "getOperatorURL" => ret.URL = getOperatorURL(low).URL
        /\ ret.fn = "GetOperatorURL" => ret.URL = GetOperatorURL(low).URL

\* C11: for the version "latest", exactly so written, both locators return
\* the fixed latest-release URL and no error, although "latest" is no
\* semantic version; for every other version string they return another URL
\* or an error.
C11_LatestURL ==
  ret.fn \in {"getOperatorURL", "GetOperatorURL"} =>
    /\ flags.Version = <<"l","a","t","e","s","t">> =>
         /\ ret.err = ""
         /\ ret.URL = LatestURL
         /\ ~SemverIsValid(<<"v">> \o flags.Version)
    /\ ret.URL = LatestURL => flags.Version = <<"l","a","t","e","s","t">>
    /\ flags.Version # <<"l","a","t","e","s","t">> =>
         \/ ret.err # ""
         \/ (HasPrefix(ret.URL, DownloadBase) /\ ret.URL # LatestURL)

\* GetOperatorURL was applied to "latest".
C11_Witness ==
  /\ ret.fn = "GetOperatorURL"
  /\ flags.Version = Latest
  /\ ret.URL = LatestURL
  /\ ret.err = ""

\* A component name that is given and is neither serving nor eventing.
InvalidComponent(c) == c # Empty /\ ~IsServing(c) /\ ~IsEventing(c)

ComponentOps == { "Namespaces.Get", "Namespaces.Create", "apply" }

\* The presence check of this run answered that the operator is there.
ReportedPresent ==
  \E i \in 1..Len(calls) :
    calls[i].op = "CheckIfOperatorInstalled" /\ calls[i].out = "present"

\* C13: in a run of install -c serving|eventing of install.go's command, the
\* component's namespace creation and apply happen only when the operator is
\* in the cluster; the operator install started for a missing operator works
\* on namespace "default" and version "latest" whatever the user's flags; and
\* when the check answered present, no operator install, download or
\* operator-manifest apply is made.
C13_OperatorBeforeComponent ==
  (impl = "current" /\ (IsServing(args.Component) \/ IsEventing(args.Component))) =>
    /\ \A i \in 1..Len(calls) :
         (~calls[i].nested /\ calls[i].op \in ComponentOps) => operatorInstalled
    /\ \A i \in 1..Len(calls) :
         (calls[i].nested /\ calls[i].op \in ComponentOps)
           => calls[i].arg = <<"d","e","f","a","u","l","t">>
    /\ \A i \in 1..Len(applied) :
         applied[i].nested
           => /\ applied[i].flags.Namespace = <<"d","e","f","a","u","l","t">>
              /\ applied[i].flags.Version = <<"l","a","t","e","s","t">>
              /\ applied[i].template = LatestURL
    /\ ReportedPresent
         => /\ \A i \in 1..Len(calls) :
                 ~calls[i].nested /\ calls[i].op # "DownloadFile"
            /\ \A i \in 1..Len(applied) : ~applied[i].nested

====
